---- MODULE Spec2Model ----
(***************************************************************************)
(* Kolynia: the value-transfer-and-verification scripts.                   *)
(*                                                                         *)
(*   scripts/send_usdc_and_verify.py    ERC-20 send + before/after check   *)
(*   scripts/evm_test_usdc.py           balance checker, optional --send   *)
(*   scripts/send_solana_and_verify.py  SOL / SPL send + before/after      *)
(*                                                                         *)
(* Text is a sequence of one-character strings.  Python integers are       *)
(* arbitrary precision: they are kept as sign + decimal digit sequence     *)
(* (most significant digit first), so 10**18 is exact here too.            *)
(***************************************************************************)
EXTENDS Integers, Sequences, FiniteSets, TLC

(***************************************************************************)
(* Bounds of the model.                                                    *)
(***************************************************************************)
\* longest --amount text enumerated
MaxAmountLen == 3
\* largest decimals() a token contract / mint answers in the send flows
MaxDecimals == 2
\* largest decimals handed to the converters on their own
MaxConvDecimals == 8
\* longest run of zeros after "0." in the small-amount texts
MaxLeadZeros == 7

(***************************************************************************)
(* Program constants.                                                      *)
(***************************************************************************)
\* decimals assumed when token.functions.decimals().call() raises
DEFAULT_DECIMALS == 18
\* int(float(amount_str) * 1e9): lamports per SOL is 10^9
LAMPORTS_EXP == 9
\* Web3.to_wei(x, 'ether') scales by 10^18
ETHER_EXP == 18
\* receipt["status"] of a transaction that executed without reverting
STATUS_OK == 1

(***************************************************************************)
(* Characters, digits, arbitrary-precision integers.                       *)
(***************************************************************************)
DigitChars == <<"0", "1", "2", "3", "4", "5", "6", "7", "8", "9">>

IsDigit(c) == \E i \in 1..10 : DigitChars[i] = c

Zeros(k) == [i \in 1..k |-> 0]

RECURSIVE Strip(_)
\* digit sequence without leading zeros; zero is <<0>>
Strip(ds) ==
    IF ds = <<>> THEN <<0>>
    ELSE IF Len(ds) > 1 /\ ds[1] = 0 THEN Strip(Tail(ds))
    ELSE ds

Front(ds) == SubSeq(ds, 1, Len(ds) - 1)

Last(ds) == ds[Len(ds)]

\* a Python int: sign and magnitude
PyInt(neg, mag) ==
    LET m == Strip(mag) IN [neg |-> neg /\ m # <<0>>, mag |-> m]

IntZero == PyInt(FALSE, <<0>>)

RECURSIVE NatDigits(_)
NatDigits(n) == IF n < 10 THEN <<n>> ELSE NatDigits(n \div 10) \o <<n % 10>>

\* a small model integer as a Python int
IntOf(n) == IF n < 0 THEN PyInt(TRUE, NatDigits(-n)) ELSE PyInt(FALSE, NatDigits(n))

RECURSIVE MagLess(_, _)
MagLess(a, b) ==
    IF Len(a) # Len(b) THEN Len(a) < Len(b)
    ELSE IF a = <<>> THEN FALSE
    ELSE IF a[1] # b[1] THEN a[1] < b[1]
    ELSE MagLess(Tail(a), Tail(b))

RECURSIVE MagAdd(_, _, _)
MagAdd(a, b, carry) ==
    IF a = <<>> /\ b = <<>> THEN (IF carry = 0 THEN <<>> ELSE <<carry>>)
    ELSE LET x == IF a = <<>> THEN 0 ELSE Last(a)
             y == IF b = <<>> THEN 0 ELSE Last(b)
             t == x + y + carry
         IN  MagAdd(IF a = <<>> THEN a ELSE Front(a),
                    IF b = <<>> THEN b ELSE Front(b), t \div 10) \o <<t % 10>>

RECURSIVE MagSub(_, _, _)
\* a - b for a >= b
MagSub(a, b, borrow) ==
    IF a = <<>> THEN <<>>
    ELSE LET x == Last(a)
             y == IF b = <<>> THEN 0 ELSE Last(b)
             t == x - y - borrow
         IN  MagSub(Front(a), IF b = <<>> THEN b ELSE Front(b),
                    IF t < 0 THEN 1 ELSE 0) \o <<IF t < 0 THEN t + 10 ELSE t>>

IntAdd(a, b) ==
    IF a.neg = b.neg THEN PyInt(a.neg, MagAdd(a.mag, b.mag, 0))
    ELSE IF MagLess(a.mag, b.mag) THEN PyInt(b.neg, MagSub(b.mag, a.mag, 0))
    ELSE PyInt(a.neg, MagSub(a.mag, b.mag, 0))

IntSub(a, b) == IntAdd(a, PyInt(~b.neg, b.mag))

IntLess(a, b) ==
    IF a.neg # b.neg THEN a.neg
    ELSE IF a.neg THEN MagLess(b.mag, a.mag)
    ELSE MagLess(a.mag, b.mag)

IntLeq(a, b) == a = b \/ IntLess(a, b)

(***************************************************************************)
(* decimal.Decimal, as far as the converters use it: construction from     *)
(* text, multiplication and division by a power of ten, int(), str().      *)
(* The texts of the model are made of "-", "." and digits, so the other    *)
(* literals Decimal accepts ("+1", "1e3", "1_0", "NaN") do not occur.      *)
(* Every coefficient of the model stays below the context precision of 28  *)
(* digits, so no operation rounds.                                         *)
(***************************************************************************)
Unsigned(s) == IF s # <<>> /\ s[1] = "-" THEN Tail(s) ELSE s

DotAt(b) == {i \in 1..Len(b) : b[i] = "."}

\* the texts Decimal(...) accepts: [-] digits [. [digits]]  or  [-] . digits
ValidLiteral(s) ==
    LET b == Unsigned(s) IN
    /\ \A i \in 1..Len(b) : IsDigit(b[i]) \/ b[i] = "."
    /\ Cardinality(DotAt(b)) <= 1
    /\ \E i \in 1..Len(b) : IsDigit(b[i])

IntDigits(s) ==
    LET b == Unsigned(s) IN
    IF DotAt(b) = {} THEN b
    ELSE SubSeq(b, 1, (CHOOSE i \in DotAt(b) : TRUE) - 1)

FracDigits(s) ==
    LET b == Unsigned(s) IN
    IF DotAt(b) = {} THEN <<>>
    ELSE SubSeq(b, (CHOOSE i \in DotAt(b) : TRUE) + 1, Len(b))

DigitsOf(cs) ==
    [i \in 1..Len(cs) |-> (CHOOSE k \in 1..10 : DigitChars[k] = cs[i]) - 1]

CharsOf(ds) == [i \in 1..Len(ds) |-> DigitChars[ds[i] + 1]]

\* a Decimal: sign, coefficient, exponent; ok = FALSE stands for the
\* InvalidOperation that Decimal(text) raises
InvalidOperation == [ok |-> FALSE, neg |-> FALSE, coef |-> <<0>>, exp |-> 0]

Decimal(s) ==
    IF ~ValidLiteral(s) THEN InvalidOperation
    ELSE [ok   |-> TRUE,
          neg  |-> s[1] = "-",
          coef |-> Strip(DigitsOf(IntDigits(s) \o FracDigits(s))),
          exp  |-> -Len(FracDigits(s))]

\* Decimal(n) of a Python int
DecimalOfInt(n) == [ok |-> TRUE, neg |-> n.neg, coef |-> n.mag, exp |-> 0]

\* d * (Decimal(10) ** k): the coefficients multiply, the exponents add
DecTimesPow10(d, k) == [d EXCEPT !.coef = Strip(d.coef \o Zeros(k))]

\* int(d): truncation toward zero
DecToInt(d) ==
    IF d.exp >= 0 THEN PyInt(d.neg, d.coef \o Zeros(d.exp))
    ELSE IF -d.exp >= Len(d.coef) THEN IntZero
    ELSE PyInt(d.neg, SubSeq(d.coef, 1, Len(d.coef) + d.exp))

RECURSIVE TrailingZeros(_)
TrailingZeros(ds) ==
    IF ds = <<>> \/ Last(ds) # 0 THEN 0 ELSE 1 + TrailingZeros(Front(ds))

\* Decimal(n) / (Decimal(10) ** k): the quotient is exact, and an exact
\* quotient is brought as close to the ideal exponent 0 as its trailing
\* zeros allow; a zero dividend gives Decimal('0')
DecDivPow10(d, k) ==
    IF d.coef = <<0>> THEN [d EXCEPT !.exp = 0]
    ELSE LET z == TrailingZeros(d.coef)
             t == IF z <= k THEN z ELSE k IN
         [d EXCEPT !.coef = SubSeq(d.coef, 1, Len(d.coef) - t),
                   !.exp  = d.exp - k + t]

\* str(d): plain notation when the exponent is <= 0 and more than -6 digits
\* lie left of the point, scientific notation otherwise
DecStr(d) ==
    LET int        == CharsOf(d.coef)
        leftdigits == d.exp + Len(int)
        dotplace   == IF d.exp <= 0 /\ leftdigits > -6 THEN leftdigits ELSE 1
        intpart    == IF dotplace <= 0 THEN <<"0">>
                      ELSE IF dotplace >= Len(int)
                           THEN int \o CharsOf(Zeros(dotplace - Len(int)))
                      ELSE SubSeq(int, 1, dotplace)
        fracpart   == IF dotplace <= 0
                           THEN <<".">> \o CharsOf(Zeros(-dotplace)) \o int
                      ELSE IF dotplace >= Len(int) THEN <<>>
                      ELSE <<".">> \o SubSeq(int, dotplace + 1, Len(int))
        exp        == IF leftdigits = dotplace THEN <<>>
                      ELSE LET n == leftdigits - dotplace IN
                           <<"E">> \o (IF n < 0 THEN <<"-">> \o CharsOf(NatDigits(-n))
                                       ELSE <<"+">> \o CharsOf(NatDigits(n)))
    IN  (IF d.neg THEN <<"-">> ELSE <<>>) \o intpart \o fracpart \o exp

(***************************************************************************)
(* The converters.  A conversion answers [ok, val]; ok = FALSE is the      *)
(* exception the conversion raises.                                        *)
(***************************************************************************)
Raised == [ok |-> FALSE, val |-> IntZero]

Returned(v) == [ok |-> TRUE, val |-> v]

\* send_usdc_and_verify.parse_amount
parse_amount(amount_str, decimals) ==
    LET d == Decimal(amount_str) IN
    IF ~d.ok THEN Raised
    ELSE Returned(DecToInt(DecTimesPow10(d, decimals)))

\* send_usdc_and_verify.format_amount, as printed by an f-string
format_amount(raw, decimals) ==
    DecStr(DecDivPow10(DecimalOfInt(raw), decimals))

\* evm_test_usdc.parse_token_amount
parse_token_amount(amount_str, decimals) ==
    LET d == Decimal(amount_str) IN
    IF ~d.ok THEN Raised
    ELSE Returned(DecToInt(DecTimesPow10(d, decimals)))

\* evm_test_usdc.format_token_amount
format_token_amount(amount_raw, decimals) ==
    DecStr(DecDivPow10(DecimalOfInt(amount_raw), decimals))

\* send_solana_and_verify: int(float(amount_str) * 1e9) and
\* int(float(amount_str) * (10 ** decimals)).  float() accepts the same
\* texts of the model as Decimal(), and on every text and scale within the
\* bounds the binary product truncates to the exact value (it stops doing
\* so with longer texts, e.g. int(float("1.001") * 1e9) = 1000999999).
float_to_raw(amount_str, scale) ==
    LET d == Decimal(amount_str) IN
    IF ~d.ok THEN Raised
    ELSE Returned(DecToInt(DecTimesPow10(d, scale)))

\* int(args.amount) for --unit wei: [-] digits
int_of_text(amount_str) ==
    LET b == Unsigned(amount_str) IN
    IF b # <<>> /\ \A i \in 1..Len(b) : IsDigit(b[i])
    THEN Returned(PyInt(amount_str[1] = "-", DigitsOf(b)))
    ELSE Raised

\* Web3.to_wei(Decimal(args.amount), 'ether'): scaled by 10^18 and
\* truncated; a negative result is refused with ValueError
to_wei_ether(amount_str) ==
    LET d == Decimal(amount_str) IN
    IF ~d.ok THEN Raised
    ELSE LET v == DecToInt(DecTimesPow10(d, ETHER_EXP)) IN
         IF v.neg THEN Raised ELSE Returned(v)

(***************************************************************************)
(* Inputs.                                                                 *)
(***************************************************************************)
\* every text of at most n characters
Texts(n) == UNION {[1..k -> {"-", ".", "0", "1"}] : k \in 0..n}

AmountTexts == Texts(MaxAmountLen)

Scripts == {"usdc", "evm", "sol"}

\* 10^21 raw units: covers every amount of the model
Rich == PyInt(FALSE, <<1>> \o Zeros(21))

\* an integer local that has not been assigned
NoInt == [neg |-> FALSE, mag |-> <<>>]

(***************************************************************************)
(* State.                                                                  *)
(***************************************************************************)
VARIABLES
    script,          \* which script this invocation runs
    asset,           \* what it transfers: an ERC-20 / SPL token or the native coin
    pc,              \* position in main()
    args,            \* command line and environment, as far as read
    loc,             \* locals of main()
    out,             \* lines printed so far
    exit_code,       \* process exit code, -1 while running
    calls,           \* how often main() built, signed, submitted
    native,          \* ledger: native balance per account
    token,           \* ledger: token balance per account
    token_decimals,  \* ledger: what decimals() answers, -1 when the call fails
    token_tax,       \* ledger: raw units the token withholds from a credit
    tx,              \* ledger: the transaction this invocation submitted
    seq,             \* ledger: the sender's transaction count
    to_ata,          \* ledger: the recipient's token sub-account exists
    conv,            \* a converter applied on its own
    http,            \* one request to the mock facilitator and its answer
    ext,             \* extract_json_objects at work on a text
    run,             \* one run of a demo runner and the processes around it
    launcher,        \* run_facilitator_forever and its uvicorn child
    race             \* two send invocations on one sender account

flowVars == <<script, asset, pc, args, loc, out, exit_code, calls>>

ledgerVars == <<native, token, token_decimals, token_tax, tx, seq, to_ata>>

toolVars == <<http, ext, run, launcher, race>>

vars == <<script, asset, pc, args, loc, out, exit_code, calls,
          native, token, token_decimals, token_tax, tx, seq, to_ata, conv,
          http, ext, run, launcher, race>>

NoArgs == [rpc |-> FALSE, priv |-> FALSE, token |-> FALSE, to |-> FALSE,
           send |-> FALSE, unit |-> "token", amount |-> <<>>]

NoLocals == [decimals |-> -1, nonce |-> -1, receipt |-> -1,
             amount_raw |-> NoInt,
             before_from |-> NoInt, before_to |-> NoInt,
             after_from |-> NoInt, after_to |-> NoInt,
             deducted |-> NoInt, received |-> NoInt,
             wallet |-> "", from_addr |-> "", nonce_addr |-> "", signer |-> ""]

NoTx == [state |-> "none", kind |-> "none", amount |-> IntZero, fee |-> 0, nonce |-> -1]

ConvIdle == [pc |-> "idle", fn |-> "none", s |-> <<>>, d |-> 0,
             raw |-> Raised, text |-> <<>>]

NoBody == [shape |-> "none", amount |-> "absent", currency |-> "absent",
           metadata |-> "absent", from_address |-> "absent", network |-> "absent"]

NoReply == [id |-> "", status |-> "", ok |-> FALSE, message |-> "",
            received |-> NoBody, header |-> ""]

HttpIdle == [pc |-> "idle", path |-> "", body |-> NoBody, status |-> 0,
             reply |-> NoReply]

ExtIdle == [pc |-> "idle", fn |-> "none", text |-> <<>>, objs |-> <<>>]

RunIdle == [pc |-> "idle", foreign |-> FALSE, spawned |-> 0, mock |-> "none",
            ready |-> FALSE, served_by |-> "none", demo |-> "none",
            objs |-> <<>>, pending |-> -1, exit_code |-> -1, out |-> <<>>,
            runner |-> "none", returncode |-> -1, signals |-> <<>>,
            ffmpeg_proc |-> "none"]

LauncherIdle == [pc |-> "idle", open_browser |-> FALSE, foreign |-> FALSE,
                 first_time |-> TRUE, proc |-> "none", ready |-> FALSE,
                 returncode |-> -1, exit_code |-> -1, headers |-> 0,
                 pid_file |-> FALSE, browser |-> 0, interrupted |-> FALSE,
                 caught |-> FALSE]

Procs == {1, 2}
ProcIdle == [pc |-> "idle", script |-> "none", nonce |-> -1, gas_price |-> 0,
             tx_nonce |-> -1, sent |-> "none", exit_code |-> -1]
RaceIdle == [seq |-> 0, proc |-> [i \in Procs |-> ProcIdle]]

\* the scripts outside the specification at hand are not running
ToolsIdle ==
    /\ http = HttpIdle /\ ext = ExtIdle /\ run = RunIdle
    /\ launcher = LauncherIdle /\ race = RaceIdle

(***************************************************************************)
(* Program constants of the transaction descriptors.                       *)
(***************************************************************************)
\* longest text given to extract_json_objects
MaxTextLen == 8

\* most JSON objects in the output of the demo
MaxObjs == 2

\* "gas": 200000 in send_usdc_and_verify
GAS_USDC == 200000
\* "gas": 150000 in evm_test_usdc, token transfer
GAS_ERC20 == 150000
\* 'gas': 21000 in evm_test_usdc, native transfer
GAS_NATIVE == 21000

(***************************************************************************)
(* The remote ledger.  A submitted transaction is accepted into the pool   *)
(* only if the sender's native balance covers gas * price (plus the value  *)
(* of a native transfer) and the sequence number is the account's current  *)
(* one; the node may refuse it for other reasons too.  An accepted         *)
(* transaction is pending until the ledger executes it.                    *)
(***************************************************************************)
\* price of one unit of gas, in raw native units
GasPrice == 1

\* fee of a transaction on the account-model chain, in lamports
LamportsPerSignature == 5000

\* most raw units a fee-on-transfer token withholds from a credit
MaxTax == 1

\* what an EVM transaction with this gas limit costs at most
GasFee(gas) == gas * GasPrice

\* what the sender must hold in native units for the node to take the tx
Required(kind, amount, fee) ==
    IF kind = "native" THEN IntAdd(amount, IntOf(fee)) ELSE IntOf(fee)

Acceptable(kind, amount, fee, nonce) ==
    /\ ~amount.neg
    /\ nonce = seq
    /\ IntLeq(Required(kind, amount, fee), native["sender"])

Pending(kind, amount, fee, nonce) ==
    [state |-> "pending", kind |-> kind, amount |-> amount, fee |-> fee,
     nonce |-> nonce]

\* the ledger executes the pending transaction: a native transfer moves
\* the value; a token transfer moves the amount if the sender holds it and
\* reverts (status 0) otherwise; the fee is charged in both cases
Ledger_Execute ==
    /\ tx.state = "pending"
    /\ LET fee == IntOf(tx.fee) IN
       IF tx.kind = "native"
       THEN /\ native' = [native EXCEPT
                            !["sender"] = IntSub(IntSub(@, tx.amount), fee),
                            !["receiver"] = IntAdd(@, tx.amount)]
            /\ token' = token
            /\ tx' = [tx EXCEPT !.state = "ok"]
       ELSE /\ native' = [native EXCEPT !["sender"] = IntSub(@, fee)]
            /\ IF IntLeq(tx.amount, token["sender"])
               THEN /\ token' = [token EXCEPT
                                   !["sender"] = IntSub(@, tx.amount),
                                   !["receiver"] = IntAdd(@, IF IntLess(tx.amount, IntOf(token_tax))
                                                THEN IntZero
                                                ELSE IntSub(tx.amount, IntOf(token_tax)))]
                    /\ tx' = [tx EXCEPT !.state = "ok"]
               ELSE /\ token' = token
                    /\ tx' = [tx EXCEPT !.state = "reverted"]
    /\ seq' = seq + 1
    /\ UNCHANGED <<flowVars, token_decimals, token_tax, to_ata, conv, toolVars>>

(***************************************************************************)
(* Addresses.  The ledger's "sender" is the account of the private key;    *)
(* --address of evm_test_usdc may name that account or another one.        *)
(***************************************************************************)
\* Account.from_key(priv).address
KeyAddress == "sender"

\* what --address may be
DeclaredAddresses == {"sender", "other"}

(***************************************************************************)
(* Steps of a script.                                                      *)
(***************************************************************************)
Running(s, at) == script = s /\ pc = at /\ exit_code = -1

\* sys.exit(code) after printing msgs
Exit(code, msgs) ==
    /\ pc' = "exit"
    /\ exit_code' = code
    /\ out' = out \o msgs

\* an exception nobody catches: traceback, exit code 1
Crash(exc, msgs) ==
    /\ pc' = "exit"
    /\ exit_code' = 1
    /\ out' = out \o msgs \o <<"Traceback", exc>>

Goto(at, msgs) ==
    /\ pc' = at
    /\ exit_code' = exit_code
    /\ out' = out \o msgs

\* main() runs off its end: exit code 0
Return(msgs) == Exit(0, msgs)

(***************************************************************************)
(* scripts/send_usdc_and_verify.py, main()                                 *)
(***************************************************************************)
\* wait = args.wait or True
usdc_wait(flag) == flag \/ TRUE

\* lines 79-98: read the arguments, refuse a missing one
usdc_CheckArgs ==
    /\ Running("usdc", "start")
    /\ \E rpc \in BOOLEAN, priv \in BOOLEAN, token_addr \in BOOLEAN, to_addr \in BOOLEAN :
         /\ args' = [args EXCEPT !.rpc = rpc, !.priv = priv,
                                 !.token = token_addr, !.to = to_addr]
         /\ IF ~rpc THEN Exit(2, <<"RPC URL is required">>)
            ELSE IF ~priv THEN Exit(2, <<"Private key is required">>)
            ELSE IF ~token_addr THEN Exit(2, <<"Token contract address is required">>)
            ELSE IF ~to_addr THEN Exit(2, <<"Recipient address is required">>)
            ELSE Goto("connect", <<>>)
    /\ UNCHANGED <<script, asset, loc, calls, ledgerVars, conv, toolVars>>

\* lines 100-114: connect, derive the sender from the key
usdc_Connect ==
    /\ Running("usdc", "connect")
    /\ \E is_connected \in BOOLEAN :
         IF ~is_connected THEN Exit(3, <<"Failed to connect to RPC">>)
         ELSE Goto("token", <<"Using from address">>)
    /\ UNCHANGED <<script, asset, args, loc, calls, ledgerVars, conv, toolVars>>

\* lines 116-125: decimals() and symbol(), with defaults when a call fails
usdc_TokenMeta ==
    /\ Running("usdc", "token")
    /\ loc' = [loc EXCEPT !.decimals =
                 IF token_decimals = -1 THEN DEFAULT_DECIMALS ELSE token_decimals]
    /\ Goto("balances", <<>>)
    /\ UNCHANGED <<script, asset, args, calls, ledgerVars, conv, toolVars>>

\* lines 127-136: balances before
usdc_BalancesBefore ==
    /\ Running("usdc", "balances")
    /\ \E readable \in BOOLEAN :
         IF ~readable
         THEN /\ Exit(4, <<"Error reading balances">>)
              /\ loc' = loc
         ELSE /\ loc' = [loc EXCEPT !.before_from = token["sender"],
                                    !.before_to = token["receiver"]]
              /\ Goto("amount", <<"Balance before", "Balance before">>)
    /\ UNCHANGED <<script, asset, args, calls, ledgerVars, conv, toolVars>>

\* lines 138-141: the amount in raw units
usdc_ParseAmount ==
    /\ Running("usdc", "amount")
    /\ \E amount_str \in AmountTexts :
         LET r == parse_amount(amount_str, loc.decimals) IN
         /\ args' = [args EXCEPT !.amount = amount_str]
         /\ IF ~r.ok
            THEN /\ Crash("InvalidOperation", <<>>)
                 /\ loc' = loc
            ELSE /\ loc' = [loc EXCEPT !.amount_raw = r.val]
                 /\ IF IntLeq(r.val, IntZero)
                    THEN Exit(2, <<"Invalid amount">>)
                    ELSE Goto("build", <<>>)
    /\ UNCHANGED <<script, asset, calls, ledgerVars, conv, toolVars>>

\* lines 143-157: chain id, nonce, transaction descriptor, gas price
usdc_BuildTx ==
    /\ Running("usdc", "build")
    /\ \E rpc_ok \in BOOLEAN :
         IF ~rpc_ok
         THEN /\ Crash("RPCError", <<>>)
              /\ UNCHANGED <<loc, calls>>
         ELSE /\ loc' = [loc EXCEPT !.nonce = seq]
              /\ calls' = [calls EXCEPT !.build = @ + 1]
              /\ Goto("send", <<>>)
    /\ UNCHANGED <<script, asset, args, ledgerVars, conv, toolVars>>

\* a variant that hands a refused payload to the node once more instead of
\* letting the exception end the run
usdc_SignAndSend_Resubmit ==
    /\ Running("usdc", "send")
    /\ calls' = [calls EXCEPT !.sign = @ + 1, !.submit = @ + 1]
    /\ \E accepted \in BOOLEAN :
         IF accepted /\ Acceptable("token", loc.amount_raw, GasFee(GAS_USDC), loc.nonce)
         THEN /\ tx' = Pending("token", loc.amount_raw, GasFee(GAS_USDC), loc.nonce)
              /\ Goto("wait", <<"Sent transfer tx">>)
         ELSE /\ tx' = tx
              /\ Goto("send", <<"retrying">>)
    /\ UNCHANGED <<script, asset, args, loc, native, token, token_decimals,
                   token_tax, seq, to_ata, conv, toolVars>>

\* a variant that keeps the transaction id to itself until the receipt
usdc_SignAndSend_Silent ==
    /\ Running("usdc", "send")
    /\ calls' = [calls EXCEPT !.sign = @ + 1, !.submit = @ + 1]
    /\ \E accepted \in BOOLEAN :
         IF accepted /\ Acceptable("token", loc.amount_raw, GasFee(GAS_USDC), loc.nonce)
         THEN /\ tx' = Pending("token", loc.amount_raw, GasFee(GAS_USDC), loc.nonce)
              /\ Goto("wait", <<>>)
         ELSE /\ tx' = tx
              /\ Crash("SubmissionError", <<>>)
    /\ UNCHANGED <<script, asset, args, loc, native, token, token_decimals,
                   token_tax, seq, to_ata, conv, toolVars>>

\* lines 159-162: sign and submit
usdc_SignAndSend ==
    /\ Running("usdc", "send")
    /\ calls' = [calls EXCEPT !.sign = @ + 1, !.submit = @ + 1]
    /\ \E accepted \in BOOLEAN :
         IF accepted /\ Acceptable("token", loc.amount_raw, GasFee(GAS_USDC), loc.nonce)
         THEN /\ tx' = Pending("token", loc.amount_raw, GasFee(GAS_USDC), loc.nonce)
              /\ Goto("wait", <<"Sent transfer tx">>)
         ELSE /\ tx' = tx
              /\ Crash("SubmissionError", <<>>)
    /\ UNCHANGED <<script, asset, args, loc, native, token, token_decimals,
                   token_tax, seq, to_ata, conv, toolVars>>

\* lines 164-169: the receipt, once the ledger has executed the transaction
usdc_WaitReceipt ==
    /\ Running("usdc", "wait")
    /\ \E flag \in BOOLEAN :
         IF usdc_wait(flag)
         THEN /\ tx.state \in {"ok", "reverted"}
              /\ loc' = [loc EXCEPT !.receipt =
                           IF tx.state = "ok" THEN STATUS_OK ELSE 0]
              /\ Goto("verify", <<"Waiting for confirmation", "Receipt">>)
         ELSE /\ loc' = loc
              /\ Goto("verify", <<>>)
    /\ UNCHANGED <<script, asset, args, calls, ledgerVars, conv, toolVars>>

\* line 166: wait_for_transaction_receipt(tx_hash, timeout=120) raises
\* TimeExhausted while the transaction is still pending; nothing catches it
usdc_WaitTimeout ==
    /\ Running("usdc", "wait")
    /\ \E flag \in BOOLEAN : usdc_wait(flag)
    /\ tx.state = "pending"
    /\ Crash("TimeExhausted", <<"Waiting for confirmation">>)
    /\ UNCHANGED <<script, asset, args, loc, calls, ledgerVars, conv, toolVars>>

\* a variant that takes both deltas as after minus before
usdc_VerifyAndReport_Swapped ==
    /\ Running("usdc", "verify")
    /\ \E readable \in BOOLEAN :
         IF ~readable
         THEN /\ Exit(4, <<"Error reading balances after tx">>)
              /\ loc' = loc
         ELSE /\ loc' = [loc EXCEPT
                           !.after_from = token["sender"],
                           !.after_to = token["receiver"],
                           !.deducted = IntSub(token["sender"], loc.before_from),
                           !.received = IntSub(token["receiver"], loc.before_to)]
              /\ IF loc.receipt = STATUS_OK
                 THEN Exit(0, <<"Balance after", "Balance after", "Deducted",
                                "Transfer succeeded">>)
                 ELSE Exit(5, <<"Balance after", "Balance after", "Deducted",
                                "Transfer may have failed or is pending">>)
    /\ UNCHANGED <<script, asset, args, calls, ledgerVars, conv, toolVars>>

\* lines 171-192: balances after, the deltas, the verdict
usdc_VerifyAndReport ==
    /\ Running("usdc", "verify")
    /\ \E readable \in BOOLEAN :
         IF ~readable
         THEN /\ Exit(4, <<"Error reading balances after tx">>)
              /\ loc' = loc
         ELSE /\ loc' = [loc EXCEPT
                           !.after_from = token["sender"],
                           !.after_to = token["receiver"],
                           !.deducted = IntSub(loc.before_from, token["sender"]),
                           !.received = IntSub(token["receiver"], loc.before_to)]
              /\ IF loc.receipt = STATUS_OK
                 THEN Exit(0, <<"Balance after", "Balance after", "Deducted",
                                "Transfer succeeded">>)
                 ELSE Exit(5, <<"Balance after", "Balance after", "Deducted",
                                "Transfer may have failed or is pending">>)
    /\ UNCHANGED <<script, asset, args, calls, ledgerVars, conv, toolVars>>

(***************************************************************************)
(* scripts/evm_test_usdc.py, main()                                        *)
(***************************************************************************)
\* lines 76-83, 117: the RPC endpoint
evm_LoadRpc ==
    /\ Running("evm", "start")
    /\ \E rpc \in BOOLEAN :
         /\ args' = [args EXCEPT !.rpc = rpc, !.token = (asset = "token")]
         /\ IF ~rpc THEN Exit(2, <<"RPC URL must be provided">>)
            ELSE Goto("connect", <<>>)
    /\ UNCHANGED <<script, asset, loc, calls, ledgerVars, conv, toolVars>>

\* lines 121-134: connect, chain id
evm_Connect ==
    /\ Running("evm", "connect")
    /\ \E is_connected \in BOOLEAN :
         IF ~is_connected THEN Exit(3, <<"Failed to connect to RPC">>)
         ELSE Goto("native_balance", <<"Connected to RPC">>)
    /\ UNCHANGED <<script, asset, args, loc, calls, ledgerVars, conv, toolVars>>

\* lines 136-145: native balance of --address; a failed read is printed and
\* the script goes on
evm_NativeBalance ==
    /\ Running("evm", "native_balance")
    /\ \E readable \in BOOLEAN :
         Goto(IF args.token THEN "erc20_balance" ELSE "gate",
              IF readable THEN <<"Native balance">>
              ELSE <<"Error fetching native balance">>)
    /\ UNCHANGED <<script, asset, args, loc, calls, ledgerVars, conv, toolVars>>

\* lines 147-163: symbol, decimals (18 when the call fails), token balance
\* of --address; a failed read is printed and the script goes on
evm_Erc20Balance ==
    /\ Running("evm", "erc20_balance")
    /\ loc' = [loc EXCEPT !.decimals =
                 IF token_decimals = -1 THEN DEFAULT_DECIMALS ELSE token_decimals]
    /\ \E readable \in BOOLEAN :
         Goto("gate", IF readable THEN <<"TOKEN balance">>
                      ELSE <<"Error fetching ERC20 balance">>)
    /\ UNCHANGED <<script, asset, args, calls, ledgerVars, conv, toolVars>>

\* a variant that goes on to send whether or not --send was passed
evm_SendGate_Always ==
    /\ Running("evm", "gate")
    /\ \E send \in BOOLEAN, to \in BOOLEAN, priv \in BOOLEAN, wallet \in DeclaredAddresses :
         /\ args' = [args EXCEPT !.send = send, !.to = to, !.priv = priv]
         /\ loc' = [loc EXCEPT !.wallet = wallet, !.from_addr = KeyAddress]
         /\ Goto(IF args.token THEN "token_amount" ELSE "native_amount", <<>>)
    /\ UNCHANGED <<script, asset, calls, ledgerVars, conv, toolVars>>

\* lines 118, 165-178: nothing is sent without --send; with it, --to and the
\* key are required; a key that does not match --address only warns
evm_SendGate ==
    /\ Running("evm", "gate")
    /\ \E send \in BOOLEAN, to \in BOOLEAN, priv \in BOOLEAN, wallet \in DeclaredAddresses :
         /\ args' = [args EXCEPT !.send = send, !.to = to, !.priv = priv]
         /\ IF ~send
            THEN /\ loc' = [loc EXCEPT !.wallet = wallet]
                 /\ Return(<<>>)
            ELSE IF ~to
            THEN /\ loc' = [loc EXCEPT !.wallet = wallet]
                 /\ Exit(2, <<"--to is required when --send is used">>)
            ELSE IF ~priv
            THEN /\ loc' = [loc EXCEPT !.wallet = wallet]
                 /\ Exit(2, <<"PRIVATE_KEY env var must be set">>)
            ELSE /\ loc' = [loc EXCEPT !.wallet = wallet, !.from_addr = KeyAddress]
                 /\ Goto(IF args.token THEN "token_amount" ELSE "native_amount",
                         IF KeyAddress = wallet THEN <<>>
                         ELSE <<"Warning: PRIVATE_KEY does not match --address">>)
    /\ UNCHANGED <<script, asset, calls, ledgerVars, conv, toolVars>>

\* lines 181-195: decimals again (18 when the call fails), the amount
evm_TokenAmount ==
    /\ Running("evm", "token_amount")
    /\ \E given \in BOOLEAN, amount_str \in AmountTexts :
         LET decimals == IF token_decimals = -1 THEN DEFAULT_DECIMALS
                         ELSE token_decimals
             amount   == IF given THEN amount_str ELSE <<>>
             r        == parse_token_amount(amount, decimals)
         IN
         /\ args' = [args EXCEPT !.amount = amount]
         /\ IF amount = <<>>
            THEN /\ loc' = [loc EXCEPT !.decimals = decimals]
                 /\ Exit(2, <<"--amount is required to send tokens">>)
            ELSE IF ~r.ok
            THEN /\ loc' = [loc EXCEPT !.decimals = decimals]
                 /\ Exit(2, <<"Invalid amount format">>)
            ELSE /\ loc' = [loc EXCEPT !.decimals = decimals, !.amount_raw = r.val]
                 /\ Goto("token_build", <<>>)
    /\ UNCHANGED <<script, asset, calls, ledgerVars, conv, toolVars>>

\* lines 196-204: nonce and transaction descriptor; transfer(address,
\* uint256) cannot encode a negative amount
evm_TokenBuild ==
    /\ Running("evm", "token_build")
    /\ IF loc.amount_raw.neg
       THEN /\ Crash("ValidationError", <<>>)
            /\ UNCHANGED <<loc, calls>>
       ELSE /\ loc' = [loc EXCEPT !.nonce = seq, !.nonce_addr = loc.from_addr]
            /\ calls' = [calls EXCEPT !.build = @ + 1]
            /\ Goto("token_send", <<>>)
    /\ UNCHANGED <<script, asset, args, ledgerVars, conv, toolVars>>

\* lines 205-208: sign and submit the token transfer
evm_TokenSend ==
    /\ Running("evm", "token_send")
    /\ loc' = [loc EXCEPT !.signer = KeyAddress]
    /\ calls' = [calls EXCEPT !.sign = @ + 1, !.submit = @ + 1]
    /\ \E accepted \in BOOLEAN :
         IF accepted /\ Acceptable("token", loc.amount_raw, GasFee(GAS_ERC20), loc.nonce)
         THEN /\ tx' = Pending("token", loc.amount_raw, GasFee(GAS_ERC20), loc.nonce)
              /\ Return(<<"Sent ERC20 transfer tx", "Wait for confirmation on explorer">>)
         ELSE /\ tx' = tx
              /\ Crash("SubmissionError", <<>>)
    /\ UNCHANGED <<script, asset, args, native, token, token_decimals,
                   token_tax, seq, to_ata, conv, toolVars>>

\* lines 210-224: the value of a native transfer
evm_NativeAmount ==
    /\ Running("evm", "native_amount")
    /\ \E given \in BOOLEAN, amount_str \in AmountTexts, unit \in {"token", "wei", "ether"} :
         LET amount == IF given THEN amount_str ELSE <<>>
             r      == IF unit = "wei" THEN int_of_text(amount)
                       ELSE to_wei_ether(amount)
         IN
         /\ args' = [args EXCEPT !.amount = amount, !.unit = unit]
         /\ IF amount = <<>>
            THEN /\ loc' = loc
                 /\ Exit(2, <<"--amount is required to send native tokens">>)
            ELSE IF ~r.ok
            THEN /\ loc' = loc
                 /\ Exit(2, <<"Invalid amount">>)
            ELSE /\ loc' = [loc EXCEPT !.amount_raw = r.val]
                 /\ Goto("native_build", <<>>)
    /\ UNCHANGED <<script, asset, calls, ledgerVars, conv, toolVars>>

\* lines 225-235: nonce and transaction descriptor
\* a variant that asks for the transaction count of --address
evm_NativeBuild_Declared ==
    /\ Running("evm", "native_build")
    /\ loc' = [loc EXCEPT !.nonce = seq, !.nonce_addr = loc.wallet]
    /\ calls' = [calls EXCEPT !.build = @ + 1]
    /\ Goto("native_send", <<>>)
    /\ UNCHANGED <<script, asset, args, ledgerVars, conv, toolVars>>

evm_NativeBuild ==
    /\ Running("evm", "native_build")
    /\ loc' = [loc EXCEPT !.nonce = seq, !.nonce_addr = loc.from_addr]
    /\ calls' = [calls EXCEPT !.build = @ + 1]
    /\ Goto("native_send", <<>>)
    /\ UNCHANGED <<script, asset, args, ledgerVars, conv, toolVars>>

\* lines 236-238: sign and submit the native transfer; a negative value
\* cannot be serialised
evm_NativeSend ==
    /\ Running("evm", "native_send")
    /\ loc' = [loc EXCEPT !.signer = KeyAddress]
    /\ IF loc.amount_raw.neg
       THEN /\ calls' = [calls EXCEPT !.sign = @ + 1]
            /\ tx' = tx
            /\ Crash("SerializationError", <<>>)
       ELSE /\ calls' = [calls EXCEPT !.sign = @ + 1, !.submit = @ + 1]
            /\ \E accepted \in BOOLEAN :
                 IF accepted /\ Acceptable("native", loc.amount_raw, GasFee(GAS_NATIVE), loc.nonce)
                 THEN /\ tx' = Pending("native", loc.amount_raw, GasFee(GAS_NATIVE), loc.nonce)
                      /\ Return(<<"Sent native transfer tx">>)
                 ELSE /\ tx' = tx
                      /\ Crash("SubmissionError", <<>>)
    /\ UNCHANGED <<script, asset, args, native, token, token_decimals,
                   token_tax, seq, to_ata, conv, toolVars>>

(***************************************************************************)
(* scripts/send_solana_and_verify.py, main()                               *)
(***************************************************************************)
\* lines 70-86: read the arguments, refuse a missing one (the mint of an
\* SPL transfer is not among those checked)
sol_CheckArgs ==
    /\ Running("sol", "start")
    /\ \E rpc \in BOOLEAN, priv \in BOOLEAN, to \in BOOLEAN :
         /\ args' = [args EXCEPT !.rpc = rpc, !.priv = priv, !.to = to]
         /\ IF ~rpc THEN Exit(2, <<"RPC is required">>)
            ELSE IF ~priv THEN Exit(2, <<"Private key is required">>)
            ELSE IF ~to THEN Exit(2, <<"Recipient address is required">>)
            ELSE Goto("keypair", <<>>)
    /\ UNCHANGED <<script, asset, loc, calls, ledgerVars, conv, toolVars>>

\* lines 88-98: the keypair
sol_LoadKeypair ==
    /\ Running("sol", "keypair")
    /\ \E loaded \in BOOLEAN :
         IF ~loaded THEN Exit(3, <<"Failed to load keypair">>)
         ELSE Goto(IF asset = "native" THEN "sol_before" ELSE "spl_setup",
                   <<"Using from address">>)
    /\ UNCHANGED <<script, asset, args, loc, calls, ledgerVars, conv, toolVars>>

\* lines 101-104: balances before
sol_BalancesBefore ==
    /\ Running("sol", "sol_before")
    /\ \E readable \in BOOLEAN :
         IF ~readable
         THEN /\ Crash("RPCError", <<>>)
              /\ loc' = loc
         ELSE /\ loc' = [loc EXCEPT !.before_from = native["sender"],
                                    !.before_to = native["receiver"]]
              /\ Goto("sol_build", <<"Balance before", "Receiver balance before">>)
    /\ UNCHANGED <<script, asset, args, calls, ledgerVars, conv, toolVars>>

\* lines 105-110: lamports and the transfer instruction; a negative
\* amount does not fit the instruction's unsigned 64-bit field
sol_BuildTransfer ==
    /\ Running("sol", "sol_build")
    /\ \E amount_str \in AmountTexts :
         LET r == float_to_raw(amount_str, LAMPORTS_EXP) IN
         /\ args' = [args EXCEPT !.amount = amount_str]
         /\ IF ~r.ok
            THEN /\ Crash("ValueError", <<>>)
                 /\ UNCHANGED <<loc, calls>>
            ELSE IF r.val.neg
            THEN /\ loc' = [loc EXCEPT !.amount_raw = r.val]
                 /\ calls' = calls
                 /\ Crash("FieldError", <<>>)
            ELSE /\ loc' = [loc EXCEPT !.amount_raw = r.val]
                 /\ calls' = [calls EXCEPT !.build = @ + 1]
                 /\ Goto("sol_send", <<>>)
    /\ UNCHANGED <<script, asset, ledgerVars, conv, toolVars>>

\* lines 111-116: sign and submit; a refused transaction ends the run
sol_Send ==
    /\ Running("sol", "sol_send")
    /\ calls' = [calls EXCEPT !.sign = @ + 1, !.submit = @ + 1]
    /\ \E accepted \in BOOLEAN :
         IF accepted /\ Acceptable("native", loc.amount_raw, LamportsPerSignature, seq)
         THEN /\ tx' = Pending("native", loc.amount_raw, LamportsPerSignature, seq)
              /\ Goto("sol_after", <<"Sent tx">>)
         ELSE /\ tx' = tx
              /\ Exit(4, <<"Send failed">>)
    /\ UNCHANGED <<script, asset, args, loc, native, token, token_decimals,
                   token_tax, seq, to_ata, conv, toolVars>>

\* lines 117-120, 146: balances after, read right after the submission
sol_BalancesAfter ==
    /\ Running("sol", "sol_after")
    /\ \E readable \in BOOLEAN :
         IF ~readable
         THEN /\ Crash("RPCError", <<>>)
              /\ loc' = loc
         ELSE /\ loc' = [loc EXCEPT !.after_from = native["sender"],
                                    !.after_to = native["receiver"]]
              /\ Return(<<"Balance after", "Receiver balance after", "Done">>)
    /\ UNCHANGED <<script, asset, args, calls, ledgerVars, conv, toolVars>>

\* lines 123-138: the mint, the associated token accounts, the decimals of
\* the mint (no default: a failed lookup raises), the raw amount
sol_SplSetup ==
    /\ Running("sol", "spl_setup")
    /\ \E mint \in BOOLEAN, amount_str \in AmountTexts :
         LET r == float_to_raw(amount_str, token_decimals) IN
         /\ args' = [args EXCEPT !.token = mint,
                                 !.amount = IF mint /\ token_decimals # -1
                                            THEN amount_str ELSE <<>>]
         /\ IF ~mint
            THEN /\ Crash("TypeError", <<>>)
                 /\ loc' = loc
            ELSE IF token_decimals = -1
            THEN /\ Crash("RPCError", <<"From ATA", "To ATA">>)
                 /\ loc' = loc
            ELSE IF ~r.ok
            THEN /\ Crash("ValueError", <<"From ATA", "To ATA">>)
                 /\ loc' = [loc EXCEPT !.decimals = token_decimals]
            ELSE /\ loc' = [loc EXCEPT !.decimals = token_decimals,
                                       !.amount_raw = r.val]
                 /\ Goto("spl_send", <<"From ATA", "To ATA", "Transferring (raw units)">>)
    /\ UNCHANGED <<script, asset, calls, ledgerVars, conv, toolVars>>

\* lines 139-146: build, sign and submit the token transfer in one client
\* call, a plain transfer between the two derived sub-accounts, which the
\* chain refuses when the destination does not exist; any exception of the
\* call ends the run
sol_SplTransfer ==
    /\ Running("sol", "spl_send")
    /\ IF loc.amount_raw.neg
       THEN /\ calls' = calls
            /\ tx' = tx
            /\ Exit(5, <<"SPL transfer failed">>)
       ELSE /\ calls' = [calls EXCEPT !.build = @ + 1, !.sign = @ + 1,
                                      !.submit = @ + 1]
            /\ \E accepted \in BOOLEAN :
                 IF accepted /\ to_ata
                             /\ Acceptable("token", loc.amount_raw, LamportsPerSignature, seq)
                 THEN /\ tx' = Pending("token", loc.amount_raw, LamportsPerSignature, seq)
                      /\ Return(<<"Transfer response", "Done">>)
                 ELSE /\ tx' = tx
                      /\ Exit(5, <<"SPL transfer failed">>)
    /\ UNCHANGED <<script, asset, args, loc, native, token, token_decimals,
                   token_tax, seq, to_ata, conv, toolVars>>

(***************************************************************************)
(* The send flows: one invocation of one script against the ledger.        *)
(***************************************************************************)
Accounts == {"sender", "receiver"}

Init ==
    /\ script \in Scripts
    /\ asset \in IF script = "usdc" THEN {"token"} ELSE {"token", "native"}
    /\ pc = "start"
    /\ args = NoArgs
    /\ loc = NoLocals
    /\ out = <<>>
    /\ exit_code = -1
    /\ calls = [build |-> 0, sign |-> 0, submit |-> 0]
    /\ \E ns \in {IntZero, Rich} :
         native = [a \in Accounts |-> IF a = "sender" THEN ns ELSE IntOf(5)]
    /\ IF asset = "token"
       THEN /\ \E ts \in {IntOf(100), Rich} :
                 token = [a \in Accounts |-> IF a = "sender" THEN ts ELSE IntOf(5)]
            /\ token_decimals \in -1..MaxDecimals
            /\ token_tax \in 0..MaxTax
       ELSE /\ token = [a \in Accounts |-> IntZero]
            /\ token_decimals = -1
            /\ token_tax = 0
    /\ tx = NoTx
    /\ seq = 0
    /\ to_ata \in IF script = "sol" /\ asset = "token" THEN BOOLEAN ELSE {TRUE}
    /\ conv = ConvIdle
    /\ ToolsIdle

Next ==
    \/ usdc_CheckArgs \/ usdc_Connect \/ usdc_TokenMeta \/ usdc_BalancesBefore
    \/ usdc_ParseAmount \/ usdc_BuildTx \/ usdc_SignAndSend
    \/ usdc_WaitReceipt \/ usdc_WaitTimeout \/ usdc_VerifyAndReport
    \/ evm_LoadRpc \/ evm_Connect \/ evm_NativeBalance \/ evm_Erc20Balance
    \/ evm_SendGate \/ evm_TokenAmount \/ evm_TokenBuild \/ evm_TokenSend
    \/ evm_NativeAmount \/ evm_NativeBuild \/ evm_NativeSend
    \/ sol_CheckArgs \/ sol_LoadKeypair \/ sol_BalancesBefore
    \/ sol_BuildTransfer \/ sol_Send \/ sol_BalancesAfter
    \/ sol_SplSetup \/ sol_SplTransfer
    \/ Ledger_Execute

Spec == Init /\ [][Next]_vars

(***************************************************************************)
(* The converters on their own: a text and a decimals value go through the *)
(* script's human-to-raw conversion and, for the two EVM scripts, back     *)
(* through its raw-to-human formatting.                                    *)
(***************************************************************************)
\* with "0.1", "0.01", ...: amounts that need leading fractional zeros
ConvTexts ==
    AmountTexts
    \cup {<<"0", ".">> \o CharsOf(Zeros(k)) \o <<"1">> : k \in 0..MaxLeadZeros}

ConvDecimals == 0..MaxConvDecimals

conv_Parse ==
    /\ conv.pc = "start"
    /\ LET r == IF conv.fn = "usdc" THEN parse_amount(conv.s, conv.d)
                ELSE IF conv.fn = "evm" THEN parse_token_amount(conv.s, conv.d)
                ELSE float_to_raw(conv.s, conv.d) IN
       conv' = [conv EXCEPT !.raw = r,
                            !.pc = IF r.ok THEN "parsed" ELSE "raised"]
    /\ UNCHANGED <<flowVars, ledgerVars, toolVars>>

conv_Format ==
    /\ conv.pc = "parsed"
    /\ conv.fn \in {"usdc", "evm"}
    /\ conv' = [conv EXCEPT !.text = IF conv.fn = "usdc"
                                      THEN format_amount(conv.raw.val, conv.d)
                                      ELSE format_token_amount(conv.raw.val, conv.d),
                            !.pc = "formatted"]
    /\ UNCHANGED <<flowVars, ledgerVars, toolVars>>

InitConv ==
    /\ script = "none"
    /\ asset = "none"
    /\ pc = "idle"
    /\ args = NoArgs
    /\ loc = NoLocals
    /\ out = <<>>
    /\ exit_code = -1
    /\ calls = [build |-> 0, sign |-> 0, submit |-> 0]
    /\ native = [a \in Accounts |-> IntZero]
    /\ token = [a \in Accounts |-> IntZero]
    /\ token_decimals = -1
    /\ token_tax = 0
    /\ tx = NoTx
    /\ seq = 0
    /\ to_ata = TRUE
    /\ ToolsIdle
    /\ \E fn \in Scripts, s \in ConvTexts, d \in ConvDecimals \cup {DEFAULT_DECIMALS} :
         /\ fn = "sol" => d \in ConvDecimals
         /\ conv = [pc |-> "start", fn |-> fn, s |-> s, d |-> d,
                    raw |-> Raised, text |-> <<>>]

NextConv == conv_Parse \/ conv_Format

SpecConv == InitConv /\ [][NextConv]_vars

\* no send flow and no converter is at work
FlowsIdle ==
    /\ script = "none"
    /\ asset = "none"
    /\ pc = "idle"
    /\ args = NoArgs
    /\ loc = NoLocals
    /\ out = <<>>
    /\ exit_code = -1
    /\ calls = [build |-> 0, sign |-> 0, submit |-> 0]
    /\ native = [a \in Accounts |-> IntZero]
    /\ token = [a \in Accounts |-> IntZero]
    /\ token_decimals = -1
    /\ token_tax = 0
    /\ tx = NoTx
    /\ seq = 0
    /\ to_ata = TRUE
    /\ conv = ConvIdle

(***************************************************************************)
(* scripts/mock_facilitator.py: one request, one answer.  A JSON value is  *)
(* modelled by its kind; the framework validates the body of a POST        *)
(* against PaymentRequest before the handler runs and answers 422 itself   *)
(* when it does not validate.                                              *)
(***************************************************************************)
\* request bodies: JSON objects with any mix of field kinds, and bodies
\* that are no JSON object at all
Bodies ==
    [shape : {"object"},
     amount : {"absent", "null", "number", "numstr", "text", "object", "bool",
               "overflow"},
     currency : {"absent", "null", "string", "number", "object"},
     metadata : {"absent", "null", "object", "string"},
     from_address : {"absent", "null", "string", "object"},
     network : {"absent", "string"}]
    \cup {[NoBody EXCEPT !.shape = k] : k \in {"array", "malformed"}}

PostPaths == {"/create_payment", "/verify", "/settle"}

\* "tx_" + uuid.uuid4().hex[:12]
TxIds == {"tx_0a", "tx_1b"}

\* metadata: dict | None = None, from_address and network: str | None = None
OptionalVerdict(kind, type) == kind \in {"absent", "null", type}

\* the verdicts the validation of a body against PaymentRequest can reach.
\* amount: float.  A number validates and so does a numeric string; a
\* boolean is taken as a number by some versions of the validator and
\* refused by others; a number beyond the float range is read as infinity.
\* currency: str.  A number is turned into text by some versions of the
\* validator and refused by others
Validates(body) ==
    LET amount   == IF body.amount \in {"number", "numstr", "overflow"} THEN {TRUE}
                    ELSE IF body.amount = "bool" THEN BOOLEAN
                    ELSE {FALSE}
        currency == IF body.currency = "string" THEN {TRUE}
                    ELSE IF body.currency = "number" THEN BOOLEAN
                    ELSE {FALSE}
    IN  IF body.shape # "object" THEN {FALSE}
        ELSE IF /\ OptionalVerdict(body.metadata, "object")
                /\ OptionalVerdict(body.from_address, "string")
                /\ OptionalVerdict(body.network, "string")
             THEN {a /\ c : a \in amount, c \in currency}
             ELSE {FALSE}

Defaulted(kind) == IF kind = "absent" THEN "null" ELSE kind

\* req.dict(): the validated model, every field present
PaymentRequest(body) ==
    [shape |-> "object",
     amount |-> IF body.amount = "overflow" THEN "overflow" ELSE "number",
     currency |-> "string",
     metadata |-> Defaulted(body.metadata),
     from_address |-> Defaulted(body.from_address),
     network |-> Defaulted(body.network)]

\* the framework's answer to a body that does not validate
Unprocessable == [http EXCEPT !.pc = "answered", !.status = 422]

\* the answer with the handler's return value; an infinite amount in it
\* cannot be written as JSON by every version of the framework
Answer(reply) ==
    {[http EXCEPT !.pc = "answered", !.status = 200, !.reply = reply]}
    \cup IF reply.received.amount = "overflow"
         THEN {[http EXCEPT !.pc = "answered", !.status = 500]}
         ELSE {}

Request(path) == http.pc = "request" /\ http.path = path

\* lines 14-16
mock_list_networks ==
    /\ Request("/list")
    /\ http' = [http EXCEPT !.pc = "answered", !.status = 200,
                            !.reply = [NoReply EXCEPT !.message = "networks"]]
    /\ UNCHANGED <<flowVars, ledgerVars, conv, ext, run, launcher, race>>

\* lines 18-22
mock_create_payment ==
    /\ Request("/create_payment")
    /\ \E valid \in Validates(http.body), tx_id \in TxIds :
         IF ~valid THEN http' = Unprocessable
         ELSE http' \in Answer([NoReply EXCEPT
                                  !.id = tx_id, !.header = tx_id,
                                  !.status = "success",
                                  !.received = PaymentRequest(http.body)])
    /\ UNCHANGED <<flowVars, ledgerVars, conv, ext, run, launcher, race>>

\* lines 24-27
mock_verify ==
    /\ Request("/verify")
    /\ \E valid \in Validates(http.body) :
         IF ~valid THEN http' = Unprocessable
         ELSE http' \in Answer([NoReply EXCEPT
                                  !.ok = TRUE, !.message = "verified",
                                  !.received = PaymentRequest(http.body)])
    /\ UNCHANGED <<flowVars, ledgerVars, conv, ext, run, launcher, race>>

\* a variant that reports a settlement the way a created payment is
mock_settle_AsCreated ==
    /\ Request("/settle")
    /\ \E valid \in Validates(http.body), tx_id \in TxIds :
         IF ~valid THEN http' = Unprocessable
         ELSE http' \in Answer([NoReply EXCEPT
                                  !.id = tx_id, !.header = tx_id,
                                  !.status = "success",
                                  !.received = PaymentRequest(http.body)])
    /\ UNCHANGED <<flowVars, ledgerVars, conv, ext, run, launcher, race>>

\* lines 29-33
mock_settle ==
    /\ Request("/settle")
    /\ \E valid \in Validates(http.body), tx_id \in TxIds :
         IF ~valid THEN http' = Unprocessable
         ELSE http' \in Answer([NoReply EXCEPT
                                  !.id = tx_id, !.header = tx_id,
                                  !.status = "settled",
                                  !.received = PaymentRequest(http.body)])
    /\ UNCHANGED <<flowVars, ledgerVars, conv, ext, run, launcher, race>>

InitMock ==
    /\ FlowsIdle
    /\ ext = ExtIdle
    /\ run = RunIdle
    /\ launcher = LauncherIdle
    /\ race = RaceIdle
    /\ \/ http = [HttpIdle EXCEPT !.pc = "request", !.path = "/list"]
       \/ \E path \in PostPaths, body \in Bodies :
            http = [HttpIdle EXCEPT !.pc = "request", !.path = path, !.body = body]

NextMock == mock_list_networks \/ mock_create_payment \/ mock_verify \/ mock_settle

SpecMock == InitMock /\ [][NextMock]_vars

(***************************************************************************)
(* extract_json_objects, in its two forms: with a stack of open braces     *)
(* (run_demo_with_mock, automated_recording) and with a counter            *)
(* (one_click_test).  Texts are over braces, the quote and the colon, so   *)
(* the JSON objects among them are {} and the objects with one member      *)
(* whose value is a string or an object; an object stands for itself as    *)
(* the text json.loads read it from.                                       *)
(***************************************************************************)
JsonTexts == UNION {[1..n -> {"{", "}", "\"", ":"}] : n \in 0..MaxTextLen}

\* the index after the string that starts at i, 0 when there is none
ParseString(t, i) ==
    IF i > Len(t) \/ t[i] # "\"" THEN 0
    ELSE LET closing == {j \in (i+1)..Len(t) : t[j] = "\""} IN
         IF closing = {} THEN 0
         ELSE (CHOOSE j \in closing : \A k \in closing : j <= k) + 1

RECURSIVE ParseObject(_, _)

\* the index after the value that starts at i, 0 when there is none
ParseValue(t, i) ==
    IF i > Len(t) THEN 0
    ELSE IF t[i] = "\"" THEN ParseString(t, i)
    ELSE IF t[i] = "{" THEN ParseObject(t, i)
    ELSE 0

\* the index after the object that starts at i, 0 when there is none
ParseObject(t, i) ==
    IF i + 1 > Len(t) \/ t[i] # "{" THEN 0
    ELSE IF t[i+1] = "}" THEN i + 2
    ELSE LET colon == ParseString(t, i + 1) IN
         IF colon = 0 \/ colon > Len(t) \/ t[colon] # ":" THEN 0
         ELSE LET end == ParseValue(t, colon + 1) IN
              IF end = 0 \/ end > Len(t) \/ t[end] # "}" THEN 0
              ELSE end + 1

\* json.loads(candidate) returns instead of raising
json_loads(candidate) == ParseObject(candidate, 1) = Len(candidate) + 1

RECURSIVE ScanStack(_, _, _, _, _)

\* run_demo_with_mock lines 61-77: the loop from character i on;
\* brace_stack holds only "{", so its length stands for it; start_idx is
\* 0 for None
ScanStack(text, i, brace_stack, start_idx, objs) ==
    IF i > Len(text) THEN objs
    ELSE IF text[i] = "{"
    THEN ScanStack(text, i + 1, brace_stack + 1,
                   IF brace_stack = 0 THEN i ELSE start_idx, objs)
    ELSE IF text[i] = "}" /\ brace_stack > 0
    THEN IF brace_stack - 1 = 0 /\ start_idx # 0
         THEN LET candidate == SubSeq(text, start_idx, i) IN
              ScanStack(text, i + 1, 0, 0,
                        IF json_loads(candidate) THEN Append(objs, candidate)
                        ELSE objs)
         ELSE ScanStack(text, i + 1, brace_stack - 1, start_idx, objs)
    ELSE ScanStack(text, i + 1, brace_stack, start_idx, objs)

\* run_demo_with_mock lines 56-78, automated_recording lines 72-92
extract_json_objects(text) == ScanStack(text, 1, 0, 0, <<>>)

RECURSIVE ScanCounter(_, _, _, _, _)

\* one_click_test lines 75-88: the loop from character i on; the counter
\* goes below zero on a stray "}"
ScanCounter(text, i, brace, start_idx, objs) ==
    IF i > Len(text) THEN objs
    ELSE IF text[i] = "{"
    THEN ScanCounter(text, i + 1, brace + 1,
                     IF brace = 0 THEN i ELSE start_idx, objs)
    ELSE IF text[i] = "}"
    THEN IF brace - 1 = 0 /\ start_idx # 0
         THEN LET chunk == SubSeq(text, start_idx, i) IN
              ScanCounter(text, i + 1, 0, 0,
                          IF json_loads(chunk) THEN Append(objs, chunk)
                          ELSE objs)
         ELSE ScanCounter(text, i + 1, brace - 1, start_idx, objs)
    ELSE ScanCounter(text, i + 1, brace, start_idx, objs)

\* one_click_test lines 71-89
extract_json_objects_counter(text) == ScanCounter(text, 1, 0, 0, <<>>)

ext_Extract ==
    /\ ext.pc = "start"
    /\ ext' = [ext EXCEPT
                 !.pc = "done",
                 !.objs = IF ext.fn = "stack" THEN extract_json_objects(ext.text)
                          ELSE extract_json_objects_counter(ext.text)]
    /\ UNCHANGED <<flowVars, ledgerVars, conv, http, run, launcher, race>>

InitExt ==
    /\ FlowsIdle
    /\ http = HttpIdle
    /\ run = RunIdle
    /\ launcher = LauncherIdle
    /\ race = RaceIdle
    /\ \E fn \in {"stack", "counter"}, text \in JsonTexts :
         ext = [pc |-> "start", fn |-> fn, text |-> text, objs |-> <<>>]

NextExt == ext_Extract

SpecExt == InitExt /\ [][NextExt]_vars

(***************************************************************************)
(* scripts/one_click_test.py, main(), with the mock it spawns, a           *)
(* facilitator that may already answer on the same host and port, and the  *)
(* demo subprocess.  The JSON objects extracted from the demo's output are *)
(* modelled by what find_status_codes looks at: the object's own           *)
(* status_code and that of a nested object.                                *)
(***************************************************************************)
\* a status_code that is missing, 200, another number, or no number
StatusKinds == {"absent", "200", "500", "text"}

DemoOutputs ==
    UNION {[1..n -> [status_code : StatusKinds, child : StatusKinds \cup {"none"}]] :
             n \in 0..MaxObjs}

\* lines 136-140: int(o['status_code']), nothing when it raises
CodesOf(kind) ==
    IF kind = "200" THEN <<200>>
    ELSE IF kind = "500" THEN <<500>>
    ELSE <<>>

\* lines 133-150: the object's own status_code if it has one, else those
\* found in its values
find_status_codes(o) ==
    IF o.status_code # "absent" THEN CodesOf(o.status_code)
    ELSE IF o.child = "none" THEN <<>>
    ELSE CodesOf(o.child)

RECURSIVE Non200(_)

\* lines 152-156
Non200(objs) ==
    IF objs = <<>> THEN <<>>
    ELSE SelectSeq(find_status_codes(objs[1]), LAMBDA c : c # 200)
         \o Non200(Tail(objs))

\* the runner at hand is at this point of its main()
Runner(r, at) == run.runner = r /\ run.pc = at

\* proc.kill() of the child that did not get ready
Killed(r) ==
    [r EXCEPT !.mock = IF r.mock = "exited" THEN "exited" ELSE "killed",
              !.signals = @ \o <<"kill">>]

\* proc.terminate(), proc.wait(timeout=3), proc.kill() when the wait runs
\* out; then the exit that was under way
Terminated(r, exits_in_time) ==
    [r EXCEPT
       !.pc = "exit", !.exit_code = r.pending,
       !.signals = @ \o IF r.mock \in {"serving", "starting"} /\ ~exits_in_time
                        THEN <<"terminate", "kill">> ELSE <<"terminate">>,
       !.mock = IF r.mock \in {"serving", "starting"}
                THEN (IF exits_in_time THEN "terminated" ELSE "killed")
                ELSE @]

\* the run leaves the try block with this exit code
Leave(code, msgs) ==
    [run EXCEPT !.pc = "finally", !.pending = code, !.out = @ \o msgs]

\* lines 93-96: the mock is started, whatever answers on the port; a child
\* that finds the port taken exits, one that finds it free serves, hangs
\* before serving, or exits
oc_StartMock ==
    /\ Runner("one_click_test", "start")
    /\ \E child \in IF run.foreign THEN {"exited"}
                     ELSE {"serving", "starting", "exited"} :
         run' = [run EXCEPT !.pc = "wait", !.spawned = @ + 1, !.mock = child,
                            !.out = @ \o <<"Starting mock facilitator...">>]
    /\ UNCHANGED <<flowVars, ledgerVars, conv, http, ext, launcher, race>>

\* lines 48-59, 97-110: GET /list until something answers 200 or 10 s
\* have passed; not ready: kill the child, exit 1
oc_WaitForMock ==
    /\ Runner("one_click_test", "wait")
    /\ IF run.mock = "serving" \/ run.foreign
       THEN run' = [run EXCEPT
                      !.pc = "demo", !.ready = TRUE,
                      !.served_by = IF run.mock = "serving" THEN "own" ELSE "foreign",
                      !.out = @ \o <<"Mock ready at">>]
       ELSE run' = Killed(Leave(1, <<"Mock failed to start in time">>))
    /\ UNCHANGED <<flowVars, ledgerVars, conv, http, ext, launcher, race>>

\* lines 62-68, 112-124: the demo subprocess; subprocess.run raises
\* TimeoutExpired after 60 s, which nothing catches; otherwise the JSON
\* objects of its stdout are extracted, whatever its return code
oc_RunDemo ==
    /\ Runner("one_click_test", "demo")
    /\ \E outcome \in {"ok", "failed", "timeout"}, objs \in DemoOutputs :
         IF outcome = "timeout"
         THEN run' = [Leave(1, <<"Running integration demo against mock...",
                                 "Traceback", "TimeoutExpired">>)
                      EXCEPT !.demo = outcome]
         ELSE run' = [run EXCEPT
                        !.pc = "check", !.demo = outcome, !.objs = objs,
                        !.out = @ \o <<"Running integration demo against mock...",
                                       "Logs written to">>]
    /\ UNCHANGED <<flowVars, ledgerVars, conv, http, ext, launcher, race>>

\* lines 125-163: the verdict on the status codes
oc_CheckStatus ==
    /\ Runner("one_click_test", "check")
    /\ LET non200 == Non200(run.objs) IN
       run' = IF non200 # <<>>
              THEN Leave(2, <<"FAIL: found non-200 status codes:">>)
              ELSE Leave(0, <<"OK: all status_code values are 200 (tsaref)">>)
    /\ UNCHANGED <<flowVars, ledgerVars, conv, http, ext, launcher, race>>

\* lines 165-174: terminate the child, kill it if it has not exited within
\* 3 s; then the exit that was under way
oc_Finally ==
    /\ Runner("one_click_test", "finally")
    /\ \E exits_in_time \in BOOLEAN : run' = Terminated(run, exits_in_time)
    /\ UNCHANGED <<flowVars, ledgerVars, conv, http, ext, launcher, race>>

InitOneClick ==
    /\ FlowsIdle
    /\ http = HttpIdle
    /\ ext = ExtIdle
    /\ launcher = LauncherIdle
    /\ race = RaceIdle
    /\ \E foreign \in BOOLEAN :
         run = [RunIdle EXCEPT !.pc = "start", !.foreign = foreign,
                               !.runner = "one_click_test"]

NextOneClick ==
    oc_StartMock \/ oc_WaitForMock \/ oc_RunDemo \/ oc_CheckStatus \/ oc_Finally

SpecOneClick == InitOneClick /\ [][NextOneClick]_vars

(***************************************************************************)
(* scripts/run_demo_with_mock.py, main()                                   *)
(***************************************************************************)
\* return codes of the demo subprocess
DemoCodes == {0, 1, 3}

\* lines 26-30, 82-83: the mock is started, whatever answers on the port
rd_StartMock ==
    /\ Runner("run_demo_with_mock", "start")
    /\ \E child \in IF run.foreign THEN {"exited"}
                     ELSE {"serving", "starting", "exited"} :
         run' = [run EXCEPT !.pc = "wait", !.spawned = @ + 1, !.mock = child,
                            !.out = @ \o <<"Starting mock facilitator and demo runner...">>]
    /\ UNCHANGED <<flowVars, ledgerVars, conv, http, ext, launcher, race>>

\* lines 33-44, 85-97: GET /list until something answers 200 or 10 s
\* have passed; not ready: kill the child, exit 1
rd_WaitForMock ==
    /\ Runner("run_demo_with_mock", "wait")
    /\ IF run.mock = "serving" \/ run.foreign
       THEN run' = [run EXCEPT
                      !.pc = "demo", !.ready = TRUE,
                      !.served_by = IF run.mock = "serving" THEN "own" ELSE "foreign",
                      !.out = @ \o <<"Waiting for mock to be ready... OK">>]
       ELSE run' = Killed(Leave(1, <<"Waiting for mock to be ready... TIMEOUT">>))
    /\ UNCHANGED <<flowVars, ledgerVars, conv, http, ext, launcher, race>>

\* lines 47-53, 99-120: the demo subprocess; TimeoutExpired after 60 s is
\* caught by nobody; a return code other than 0 becomes the exit code
rd_RunDemo ==
    /\ Runner("run_demo_with_mock", "demo")
    /\ \E returncode \in DemoCodes, timed_out \in BOOLEAN :
         IF timed_out
         THEN run' = [Leave(1, <<"Running demo script...", "Traceback",
                                 "TimeoutExpired">>)
                      EXCEPT !.demo = "timeout"]
         ELSE IF returncode # 0
         THEN run' = [Leave(returncode, <<"Running demo script...",
                                          "Demo stdout/stderr written to",
                                          "Demo exited with code">>)
                      EXCEPT !.demo = "failed", !.returncode = returncode]
         ELSE run' = [Leave(0, <<"Running demo script...",
                                 "Demo stdout/stderr written to">>)
                      EXCEPT !.demo = "ok", !.returncode = returncode]
    /\ UNCHANGED <<flowVars, ledgerVars, conv, http, ext, launcher, race>>

\* a variant that waits for the child but does not kill it when the wait
\* runs out
rd_Finally_NoKill ==
    /\ Runner("run_demo_with_mock", "finally")
    /\ \E exits_in_time \in BOOLEAN :
         run' = IF exits_in_time THEN Terminated(run, TRUE)
                ELSE [run EXCEPT !.pc = "exit", !.exit_code = run.pending,
                                 !.signals = @ \o <<"terminate">>]
    /\ UNCHANGED <<flowVars, ledgerVars, conv, http, ext, launcher, race>>

\* lines 122-131: terminate the child, kill it if it has not exited
\* within 3 s; then the exit that was under way
rd_Finally ==
    /\ Runner("run_demo_with_mock", "finally")
    /\ \E exits_in_time \in BOOLEAN : run' = Terminated(run, exits_in_time)
    /\ UNCHANGED <<flowVars, ledgerVars, conv, http, ext, launcher, race>>

(***************************************************************************)
(* scripts/automated_recording.py, main()                                  *)
(***************************************************************************)
\* lines 42-45, 120-121: the mock is started, whatever answers on the port
ar_StartMock ==
    /\ Runner("automated_recording", "start")
    /\ \E child \in IF run.foreign THEN {"exited"}
                     ELSE {"serving", "starting", "exited"} :
         run' = [run EXCEPT !.pc = "wait", !.spawned = @ + 1, !.mock = child,
                            !.out = @ \o <<"Starting mock facilitator and demo runner...">>]
    /\ UNCHANGED <<flowVars, ledgerVars, conv, http, ext, launcher, race>>

\* lines 48-60, 123-134: GET /list until something answers 200 or 10 s
\* have passed; not ready: kill the child, exit 1
ar_WaitForMock ==
    /\ Runner("automated_recording", "wait")
    /\ IF run.mock = "serving" \/ run.foreign
       THEN run' = [run EXCEPT
                      !.pc = "record", !.ready = TRUE,
                      !.served_by = IF run.mock = "serving" THEN "own" ELSE "foreign",
                      !.out = @ \o <<"Waiting for mock to be ready... OK">>]
       ELSE run' = Killed(Leave(1, <<"Waiting for mock to be ready... TIMEOUT">>))
    /\ UNCHANGED <<flowVars, ledgerVars, conv, http, ext, launcher, race>>

\* lines 95-111, 136-144: with --record, ffmpeg is started if it is found
\* and can be spawned
ar_StartRecording ==
    /\ Runner("automated_recording", "record")
    /\ \E record \in BOOLEAN, started \in BOOLEAN :
         run' = [run EXCEPT
                   !.pc = "demo",
                   !.ffmpeg_proc = IF record /\ started THEN "recording" ELSE "none",
                   !.out = @ \o IF ~record THEN <<>>
                                ELSE IF started THEN <<"Recording started">>
                                ELSE <<"Recording not started">>]
    /\ UNCHANGED <<flowVars, ledgerVars, conv, http, ext, launcher, race>>

\* lines 63-69, 146-165: the demo subprocess; TimeoutExpired is caught by
\* nobody; a return code other than 0 is printed and main() runs off its
\* end
ar_RunDemo ==
    /\ Runner("automated_recording", "demo")
    /\ \E returncode \in DemoCodes, timed_out \in BOOLEAN :
         IF timed_out
         THEN run' = [Leave(1, <<"Running demo script...", "Traceback",
                                 "TimeoutExpired">>)
                      EXCEPT !.demo = "timeout"]
         ELSE IF returncode # 0
         THEN run' = [Leave(0, <<"Running demo script...", "Logs written to",
                                 "Demo exited with code">>)
                      EXCEPT !.demo = "failed", !.returncode = returncode]
         ELSE run' = [Leave(0, <<"Running demo script...", "Logs written to">>)
                      EXCEPT !.demo = "ok", !.returncode = returncode]
    /\ UNCHANGED <<flowVars, ledgerVars, conv, http, ext, launcher, race>>

\* lines 167-187: stop the recorder, then terminate the child and kill it
\* if it has not exited within 3 s; then the exit that was under way
ar_Finally ==
    /\ Runner("automated_recording", "finally")
    /\ \E ffmpeg_exits \in BOOLEAN, exits_in_time \in BOOLEAN :
         run' = [Terminated(run, exits_in_time) EXCEPT
                   !.ffmpeg_proc = IF run.ffmpeg_proc = "recording"
                                   THEN (IF ffmpeg_exits THEN "terminated" ELSE "killed")
                                   ELSE @]
    /\ UNCHANGED <<flowVars, ledgerVars, conv, http, ext, launcher, race>>

(***************************************************************************)
(* The three demo runners: one run of one of them.                         *)
(***************************************************************************)
InitRunners ==
    /\ FlowsIdle
    /\ http = HttpIdle
    /\ ext = ExtIdle
    /\ launcher = LauncherIdle
    /\ race = RaceIdle
    /\ \E r \in {"run_demo_with_mock", "one_click_test", "automated_recording"},
          foreign \in BOOLEAN :
         run = [RunIdle EXCEPT !.pc = "start", !.foreign = foreign, !.runner = r]

NextRunners ==
    \/ rd_StartMock \/ rd_WaitForMock \/ rd_RunDemo \/ rd_Finally
    \/ ar_StartMock \/ ar_WaitForMock \/ ar_StartRecording \/ ar_RunDemo
    \/ ar_Finally
    \/ NextOneClick

SpecRunners == InitRunners /\ [][NextRunners]_vars

(***************************************************************************)
(* scripts/run_facilitator_forever.py, main()                              *)
(***************************************************************************)
\* the headers counted in facilitator.log stop at this number
MaxHeaders == 3

\* return codes of the uvicorn child
ChildCodes == {0, 1, 3}

\* lines 41-54, 85: a header goes to the log, the child is spawned, its pid
\* is written
ff_StartUvicorn ==
    /\ launcher.pc = "start"
    /\ launcher' = [launcher EXCEPT
                      !.pc = "ready", !.proc = "running", !.returncode = -1,
                      !.headers = IF @ < MaxHeaders THEN @ + 1 ELSE @,
                      !.pid_file = TRUE]
    /\ UNCHANGED <<flowVars, ledgerVars, conv, http, ext, run, race>>

\* the child ends by itself: a crash, a port that is taken, a clean stop
ff_ChildExits ==
    /\ launcher.pc \in {"ready", "wait"}
    /\ launcher.proc = "running"
    /\ \E code \in ChildCodes :
         launcher' = [launcher EXCEPT !.proc = "exited", !.returncode = code]
    /\ UNCHANGED <<flowVars, ledgerVars, conv, http, ext, run, race>>

\* lines 57-69, 86-93: GET /list until something answers 200 or 10 s have
\* passed; the browser is opened the first time only
ff_WaitForReady ==
    /\ launcher.pc = "ready"
    /\ \E ready \in IF launcher.foreign THEN {TRUE}
                     ELSE IF launcher.proc = "running" THEN BOOLEAN
                     ELSE {FALSE} :
         launcher' = [launcher EXCEPT
                        !.pc = "wait", !.ready = ready,
                        !.browser = IF ready /\ launcher.open_browser
                                       /\ launcher.first_time
                                    THEN @ + 1 ELSE @,
                        !.first_time = IF ready /\ launcher.open_browser
                                       THEN FALSE ELSE @]
    /\ UNCHANGED <<flowVars, ledgerVars, conv, http, ext, run, race>>

\* a variant that takes a clean stop of the child for the end of the work
ff_ProcWait_StopOnZero ==
    /\ launcher.pc = "wait"
    /\ launcher.proc = "exited"
    /\ launcher' = [launcher EXCEPT
                      !.pc = IF launcher.returncode = 0 THEN "finally" ELSE "sleep",
                      !.exit_code = launcher.returncode]
    /\ UNCHANGED <<flowVars, ledgerVars, conv, http, ext, run, race>>

\* lines 95-98: proc.wait() returns once the child has ended, whatever its
\* return code
ff_ProcWait ==
    /\ launcher.pc = "wait"
    /\ launcher.proc = "exited"
    /\ launcher' = [launcher EXCEPT !.pc = "sleep",
                                    !.exit_code = launcher.returncode]
    /\ UNCHANGED <<flowVars, ledgerVars, conv, http, ext, run, race>>

\* line 108: time.sleep(RESTART_DELAY), then the next turn of the loop
ff_Sleep ==
    /\ launcher.pc = "sleep"
    /\ launcher' = [launcher EXCEPT !.pc = "start"]
    /\ UNCHANGED <<flowVars, ledgerVars, conv, http, ext, run, race>>

\* Ctrl-C: caught around proc.wait() (lines 99-105: terminate, break),
\* caught by nobody anywhere else in the loop; both ways lead to finally
ff_KeyboardInterrupt ==
    /\ launcher.pc \in {"start", "ready", "wait", "sleep"}
    /\ launcher' = [launcher EXCEPT !.pc = "finally", !.interrupted = TRUE,
                                    !.caught = (launcher.pc = "wait")]
    /\ UNCHANGED <<flowVars, ledgerVars, conv, http, ext, run, race>>

\* lines 109-124: a child that is still alive is terminated, and killed if
\* it is alive 0.2 s later; the pid file is removed
ff_Finally ==
    /\ launcher.pc = "finally"
    /\ \E exits_in_time \in BOOLEAN :
         launcher' = [launcher EXCEPT
                        !.pc = "exit", !.pid_file = FALSE,
                        !.proc = IF @ = "running"
                                 THEN (IF exits_in_time THEN "terminated" ELSE "killed")
                                 ELSE @]
    /\ UNCHANGED <<flowVars, ledgerVars, conv, http, ext, run, race>>

InitLauncher ==
    /\ FlowsIdle
    /\ http = HttpIdle
    /\ ext = ExtIdle
    /\ run = RunIdle
    /\ race = RaceIdle
    /\ \E open_browser \in BOOLEAN, foreign \in BOOLEAN :
         launcher = [LauncherIdle EXCEPT !.pc = "start",
                                         !.open_browser = open_browser,
                                         !.foreign = foreign]

\* the steps the launcher takes by itself
ff_Steps ==
    \/ ff_StartUvicorn \/ ff_WaitForReady \/ ff_ProcWait \/ ff_Sleep
    \/ ff_Finally

NextLauncher == ff_Steps \/ ff_ChildExits \/ ff_KeyboardInterrupt

\* the interpreter keeps running the launcher; nothing forces the child to
\* end or the user to press Ctrl-C
SpecLauncherLive == InitLauncher /\ [][NextLauncher]_vars /\ WF_vars(ff_Steps)

(***************************************************************************)
(* Two runs of a send flow at the same time, signing with the same key:    *)
(* scripts/send_usdc_and_verify.py lines 143-162 and                       *)
(* scripts/evm_test_usdc.py lines 196-207, 225-238.                        *)
(***************************************************************************)
\* the transaction of run i is in the pool or in a block
InLedger(i) == race.proc[i].sent \in {"pending", "mined"}

\* send_usdc_and_verify.py line 145, evm_test_usdc.py lines 197, 226:
\* get_transaction_count(from_addr) is the count of mined transactions
race_FetchNonce(i) ==
    /\ race.proc[i].pc = "nonce"
    /\ race' = [race EXCEPT !.proc[i].pc = "build",
                            !.proc[i].nonce = race.seq]
    /\ UNCHANGED <<flowVars, ledgerVars, conv, http, ext, run, launcher>>

\* send_usdc_and_verify.py lines 146-157, evm_test_usdc.py lines 198-204,
\* 227-235: the transaction carries the nonce that was read and the gas
\* price of the moment (or the one asked for), one of two; a pending
\* transaction is replaced only by one of the same nonce that pays more
race_Build(i) ==
    /\ race.proc[i].pc = "build"
    /\ \E gas_price \in {1, 2} :
         race' = [race EXCEPT !.proc[i].pc = "send",
                              !.proc[i].tx_nonce = race.proc[i].nonce,
                              !.proc[i].gas_price = gas_price]
    /\ UNCHANGED <<flowVars, ledgerVars, conv, http, ext, run, launcher>>

\* what the node does with the transaction of run i carrying nonce n
Submitted(i, n) ==
    LET others == {j \in Procs \ {i} : /\ race.proc[j].sent = "pending"
                                       /\ race.proc[j].tx_nonce = n}
    IN  IF n < race.seq
        THEN [race EXCEPT !.proc[i].pc = "done", !.proc[i].sent = "refused",
                          !.proc[i].exit_code = 1]
        ELSE IF \E j \in others : race.proc[j].gas_price >= race.proc[i].gas_price
        THEN [race EXCEPT !.proc[i].pc = "done", !.proc[i].sent = "refused",
                          !.proc[i].exit_code = 1]
        ELSE [race EXCEPT
                !.proc = [j \in Procs |->
                            IF j = i
                            THEN [@[j] EXCEPT !.pc = "done", !.sent = "pending",
                                              !.tx_nonce = n]
                            ELSE IF j \in others
                            THEN [@[j] EXCEPT !.sent = "dropped"]
                            ELSE @[j]]]

\* a variant that, when the nonce it read is taken, asks for the next free
\* one and submits again
race_SignAndSend_Retry(i) ==
    /\ race.proc[i].pc = "send"
    /\ LET taken == Cardinality({j \in Procs \ {i} : InLedger(j)})
           first == Submitted(i, race.proc[i].tx_nonce)
       IN  race' = IF first.proc[i].sent = "refused"
                   THEN Submitted(i, race.seq + taken)
                   ELSE first
    /\ UNCHANGED <<flowVars, ledgerVars, conv, http, ext, run, launcher>>

\* send_usdc_and_verify.py lines 160-162, evm_test_usdc.py lines 205-207,
\* 236-238: sign, send_raw_transaction once; a refusal of the node (nonce
\* too low, replacement underpriced, already known) is caught by nobody
race_SignAndSend(i) ==
    /\ race.proc[i].pc = "send"
    /\ race' = Submitted(i, race.proc[i].tx_nonce)
    /\ UNCHANGED <<flowVars, ledgerVars, conv, http, ext, run, launcher>>

\* the ledger executes the pending transaction that carries the sender's
\* next sequence number
race_Mine(i) ==
    /\ race.proc[i].sent = "pending"
    /\ race.proc[i].tx_nonce = race.seq
    /\ race' = [race EXCEPT !.seq = @ + 1, !.proc[i].sent = "mined"]
    /\ UNCHANGED <<flowVars, ledgerVars, conv, http, ext, run, launcher>>

InitRace ==
    /\ FlowsIdle
    /\ http = HttpIdle
    /\ ext = ExtIdle
    /\ run = RunIdle
    /\ launcher = LauncherIdle
    /\ \E flows \in [Procs -> {"send_usdc_and_verify", "evm_test_usdc"}] :
         race = [RaceIdle EXCEPT
                   !.proc = [i \in Procs |->
                               [ProcIdle EXCEPT !.pc = "nonce",
                                                !.script = flows[i]]]]

NextRace ==
    \E i \in Procs :
       \/ race_FetchNonce(i)
       \/ race_Build(i)
       \/ race_SignAndSend(i)
       \/ race_Mine(i)

SpecRace == InitRace /\ [][NextRace]_vars

(***************************************************************************)
(* Properties.                                                             *)
(***************************************************************************)
Printed(msg) == \E i \in 1..Len(out) : out[i] = msg

Assigned(v) == v # NoInt

\* what this invocation's transaction costs the sender in fees
FlowFee ==
    IF script = "usdc" THEN GasFee(GAS_USDC)
    ELSE IF script = "evm"
         THEN (IF asset = "token" THEN GasFee(GAS_ERC20) ELSE GasFee(GAS_NATIVE))
    ELSE LamportsPerSignature

\* C1: whenever the receiver's raw balance delta differs from the requested
\* raw amount, send_usdc_and_verify neither prints "Transfer succeeded" nor
\* exits 0, whatever the receipt's status.
C1_MismatchIsNotSuccess ==
    (/\ script = "usdc"
     /\ Assigned(loc.received)
     /\ loc.received # loc.amount_raw)
    => (~Printed("Transfer succeeded") /\ exit_code # 0)

\* C2: an amount that parses to zero or to a negative value is never signed
\* or submitted, in any send path.
C2_NonPositiveNeverSent ==
    (Assigned(loc.amount_raw) /\ IntLeq(loc.amount_raw, IntZero))
    => (calls.sign = 0 /\ calls.submit = 0)

ExcessDigits(s, d) == ValidLiteral(s) /\ Len(FracDigits(s)) > d

\* C3: an amount with more fractional digits than the token's decimals is
\* not converted (the conversion fails) and nothing is transferred for it.
C3_ExcessDigitsRejected ==
    (/\ asset = "token"
     /\ loc.decimals # -1
     /\ args.amount # <<>>
     /\ ExcessDigits(args.amount, loc.decimals))
    => (~Assigned(loc.amount_raw) /\ calls.submit = 0)

\* C4: when the token's decimals lookup fails, no raw amount is computed
\* from an assumed decimals value and no transaction is submitted.
C4_NoGuessedDecimals ==
    (asset = "token" /\ token_decimals = -1)
    => (~Assigned(loc.amount_raw) /\ calls.submit = 0)

\* a positive amount written the one way a formatter can give it back:
\* no sign, an integer part without redundant zeros, no trailing
\* fractional zeros, no bare point
Canonical(s) ==
    /\ ValidLiteral(s)
    /\ s[1] # "-"
    /\ IntDigits(s) # <<>>
    /\ (Len(IntDigits(s)) > 1 => IntDigits(s)[1] # "0")
    /\ (DotAt(s) # {} => FracDigits(s) # <<>> /\ Last(FracDigits(s)) # "0")
    /\ \E i \in 1..Len(s) : IsDigit(s[i]) /\ s[i] # "0"

\* C5: for a positive amount text with at most d fractional digits,
\* formatting the parsed raw value gives the text back; stated for the
\* canonical texts, small values with many leading fractional zeros among
\* them.
C5_RoundTrip ==
    (/\ conv.pc = "formatted"
     /\ Canonical(conv.s)
     /\ Len(FracDigits(conv.s)) <= conv.d)
    => conv.text = conv.s

\* a run of send_usdc_and_verify that ended while its transaction was
\* still unconfirmed
EndedUnconfirmed == script = "usdc" /\ pc = "exit" /\ tx.state = "pending"

\* C6: when confirmation is not observed before the timeout, the run ends
\* in an outcome of its own, neither the failed-transfer exit (code 5) nor
\* an unhandled exception, and computes no balance delta.
C6_TimeoutIsDistinctOutcome ==
    EndedUnconfirmed
    => (/\ ~Printed("Traceback")
        /\ exit_code \notin {1, 5}
        /\ ~Assigned(loc.deducted)
        /\ ~Assigned(loc.received))

\* C7: the balances after the transfer are read only once the submitted
\* transaction is in a terminal state.
C7_AfterBalancesOnlyWhenConfirmed ==
    Assigned(loc.after_to) => tx.state \in {"ok", "reverted"}

PreflightErrors ==
    {"RPC URL is required", "Private key is required",
     "Token contract address is required", "Recipient address is required",
     "RPC URL must be provided", "RPC is required",
     "--to is required when --send is used", "PRIVATE_KEY env var must be set",
     "--amount is required to send tokens",
     "--amount is required to send native tokens",
     "Invalid amount", "Invalid amount format",
     "Failed to connect to RPC", "Failed to load keypair",
     "Error reading balances",
     "Error fetching native balance", "Error fetching ERC20 balance"}

\* C8: no run both reports a validation or pre-flight error and submits a
\* transaction.
C8_PreflightErrorHalts ==
    (\E i \in 1..Len(out) : out[i] \in PreflightErrors) => calls.submit = 0

\* C9: in the two EVM scripts a sender whose balance is below what the
\* transfer requires (amount plus fee for a native transfer, the fee for a
\* token transfer) never gets as far as signing or submitting.  Until the
\* transaction is accepted the ledger's balances are those the run started
\* with.
C9_InsufficientBalanceHalts ==
    (/\ script \in {"usdc", "evm"}
     /\ tx.state = "none"
     /\ Assigned(loc.amount_raw)
     /\ ~loc.amount_raw.neg
     /\ IntLess(native["sender"], Required(asset, loc.amount_raw, FlowFee)))
    => (calls.sign = 0 /\ calls.submit = 0)

\* C10: one invocation builds, signs and submits at most once, whatever
\* fails at or after the submission.
C10_SubmitAtMostOnce ==
    calls.build <= 1 /\ calls.sign <= 1 /\ calls.submit <= 1

\* a run that submitted once and then failed: refused by the node, timed
\* out waiting, or could not read the balances afterwards
C10_FailedAfterSubmit ==
    /\ calls.submit = 1
    /\ pc = "exit"
    /\ \/ Printed("SubmissionError")
       \/ Printed("TimeExhausted")
       \/ Printed("Error reading balances after tx")

\* some line of the output carries the id of the submitted transaction
TxIdPrinted ==
    \/ Printed("Sent transfer tx") \/ Printed("Sent ERC20 transfer tx")
    \/ Printed("Sent native transfer tx") \/ Printed("Sent tx")
    \/ Printed("Transfer response")

\* C11: once a transaction id was obtained from the submission, the output
\* contains it, so every later failure (timeout, failed receipt, unreadable
\* balances) happens in a run that has already printed the id.
C11_TxIdBeforeLaterFailure == tx.state # "none" => TxIdPrinted

\* a run that failed after its transaction was accepted
C11_FailedAfterId == tx.state # "none" /\ pc = "exit" /\ exit_code # 0

ValidationErrors ==
    {"RPC URL is required", "Private key is required",
     "Token contract address is required", "Recipient address is required",
     "Invalid amount"}

\* the node refused the submission of a sender that cannot pay for it
RefusedForBalance ==
    /\ Printed("SubmissionError")
    /\ IntLess(native["sender"], Required("token", loc.amount_raw, GasFee(GAS_USDC)))

TimedOut == Printed("TimeExhausted")

\* C12: send_usdc_and_verify exits 0 only after a confirmed transfer, with
\* 2 on a validation error and 3 on a connection failure, and with further
\* non-zero codes on insufficient balance and on a confirmation timeout
\* that differ from those and from each other: a run refused for lack of
\* balance ends with the interpreter's code 1, so a timed-out run does not.
C12_ExitCodesDistinct ==
    (script = "usdc" /\ pc = "exit") =>
        /\ (exit_code = 0 => tx.state = "ok")
        /\ ((\E i \in 1..Len(out) : out[i] \in ValidationErrors) => exit_code = 2)
        /\ (Printed("Failed to connect to RPC") => exit_code = 3)
        /\ (RefusedForBalance => exit_code \notin {0, 2, 3})
        /\ (TimedOut => exit_code \notin {0, 1, 2, 3})

\* C13: the deltas send_usdc_and_verify reports are before minus after for
\* the sender and after minus before for the receiver; when the confirmed
\* transfer moved exactly the requested amount (no token fee) both equal
\* that amount and the run reports success.
C13_ExactTransfer ==
    (script = "usdc" /\ Assigned(loc.received)) =>
        /\ loc.deducted = IntSub(loc.before_from, loc.after_from)
        /\ loc.received = IntSub(loc.after_to, loc.before_to)
        /\ (tx.state = "ok" /\ token_tax = 0) =>
               /\ loc.deducted = loc.amount_raw
               /\ loc.received = loc.amount_raw
               /\ Printed("Transfer succeeded")
               /\ exit_code = 0

\* a confirmed transfer without token fee, verified
C13_ExactVerified ==
    /\ script = "usdc" /\ tx.state = "ok" /\ token_tax = 0
    /\ Assigned(loc.received) /\ loc.received = loc.amount_raw
    /\ exit_code = 0

\* the key of evm_test_usdc derives another address than --address
KeyMismatch == script = "evm" /\ loc.from_addr # "" /\ loc.wallet # loc.from_addr

\* C14: on a key mismatch evm_test_usdc prints the warning and goes on (the
\* warning is never the last thing a run does), and the transaction count
\* is fetched for, and the transaction signed by, the key's address.
C14_KeyAddressIsAuthoritative ==
    KeyMismatch =>
        /\ Printed("Warning: PRIVATE_KEY does not match --address")
        /\ out[Len(out)] # "Warning: PRIVATE_KEY does not match --address"
              \/ pc # "exit"
        /\ loc.nonce_addr \in {"", KeyAddress}
        /\ loc.signer \in {"", KeyAddress}
        /\ (tx.state # "none" => loc.nonce_addr = KeyAddress /\ loc.signer = KeyAddress)

\* a mismatching run whose transaction was accepted
C14_MismatchSent == KeyMismatch /\ tx.state = "pending" /\ pc = "exit"

\* C15: evm_test_usdc builds, signs or submits only in a run with --send,
\* --to, a private key and --amount; every other run is read-only.
C15_SendOnlyWhenAsked ==
    (script = "evm" /\ (calls.build > 0 \/ calls.sign > 0 \/ calls.submit > 0)) =>
        (args.send /\ args.to /\ args.priv /\ args.amount # <<>>)

\* a run with everything present that submitted, and whose node took it
C15_SentWhenAsked ==
    /\ script = "evm" /\ args.send /\ args.to /\ args.priv /\ args.amount # <<>>
    /\ calls.submit = 1 /\ Printed("Sent native transfer tx")

\* C16: the only transaction send_solana_and_verify builds for a token is
\* the plain transfer, without a creation step; so for a recipient whose
\* token sub-account does not exist it submits nothing.
C16_NoPlainTransferToMissingAccount ==
    (script = "sol" /\ asset = "token" /\ ~to_ata) => calls.submit = 0

Answered(path) == http.pc = "answered" /\ http.path = path

\* the documented success answer of the endpoint to the request
DocumentedReply ==
    /\ http.status = 200
    /\ http.reply.received = PaymentRequest(http.body)
    /\ IF http.path = "/verify"
       THEN http.reply.ok /\ http.reply.message = "verified"
       ELSE /\ http.reply.id \in TxIds
            /\ http.reply.header = http.reply.id
            /\ http.reply.status =
                  (IF http.path = "/settle" THEN "settled" ELSE "success")

WellTyped(body) ==
    /\ body.shape = "object"
    /\ body.amount = "number"
    /\ body.currency = "string"
    /\ OptionalVerdict(body.metadata, "object")
    /\ OptionalVerdict(body.from_address, "string")
    /\ OptionalVerdict(body.network, "string")

ObjectAfterStrays(text, k) ==
    /\ k < Len(text)
    /\ \A i \in 1..k : text[i] = "}"
    /\ json_loads(SubSeq(text, k + 1, Len(text)))

\* C18: from a text that is one valid JSON object, possibly preceded by
\* unmatched closing braces, the stack-based extract_json_objects returns
\* exactly that object, also when a brace occurs inside one of its strings.
C18_ValidObjectReturned ==
    \A k \in 0..MaxTextLen :
        (ext.pc = "done" /\ ext.fn = "stack" /\ ObjectAfterStrays(ext.text, k))
        => ext.objs = <<SubSeq(ext.text, k + 1, Len(ext.text))>>

\* C19: one_click_test ends with 1 when the mock was not ready or the demo
\* subprocess failed or timed out, with 2 when the objects of a demo that
\* ran hold a status_code other than 200, and with 0 only when the demo
\* succeeded.
C19_OneClickExitCodes ==
    run.pc = "exit" =>
        /\ (~run.ready => run.exit_code = 1)
        /\ (run.demo = "timeout" => run.exit_code = 1)
        /\ (run.demo = "ok" /\ Non200(run.objs) # <<>> => run.exit_code = 2)
        /\ (run.demo = "ok" /\ Non200(run.objs) = <<>> => run.exit_code = 0)
        /\ (run.demo = "failed" => run.exit_code \in {1, 2})
        /\ (run.exit_code = 0 => run.demo = "ok")

\* C20: with a facilitator already answering on the mock's host and port,
\* one_click_test spawns no uvicorn process; and the demo only ever runs
\* against the mock the script started.
C20_MockStartedOnlyIfNeeded ==
    /\ (run.foreign => run.spawned = 0)
    /\ (run.demo # "none" => run.served_by = "own")

\* C21: when the demo subprocess ends with a return code other than 0,
\* automated_recording, like run_demo_with_mock, exits with that code once
\* its cleanup is done.
C21_RunnersExitWithDemoCode ==
    (/\ run.runner \in {"run_demo_with_mock", "automated_recording"}
     /\ run.pc = "exit"
     /\ run.demo = "failed")
    => run.exit_code = run.returncode

\* C24: whichever way a runner ends once it has started the mock, it has
\* sent the child terminate and the child is not running any more: it had
\* exited, it exited on the signal, or it was killed.
C24_MockNeverLeftRunning ==
    (run.pc = "exit" /\ run.spawned > 0) =>
        /\ \E i \in 1..Len(run.signals) : run.signals[i] = "terminate"
        /\ run.mock \in {"exited", "terminated", "killed"}

\* a run whose demo timed out and whose mock had to be killed
C24_KilledAfterTimeout ==
    run.pc = "exit" /\ run.demo = "timeout" /\ run.mock = "killed"

SameNonceRead ==
    /\ \A i \in Procs : race.proc[i].nonce >= 0
    /\ \A i, j \in Procs : race.proc[i].nonce = race.proc[j].nonce

\* C23: when two concurrent runs of the send flow have read the same
\* sequence number of the sender, at most one of their two transactions is
\* in the ledger, pending or mined.
C23_SameNonceAtMostOneAccepted ==
    SameNonceRead => Cardinality({i \in Procs : InLedger(i)}) <= 1

\* both runs read the same sequence number and both have submitted: one
\* transaction is mined, the other one was refused or dropped
C23_BothSubmittedSameNonce ==
    /\ SameNonceRead
    /\ \A i \in Procs : race.proc[i].pc = "done"
    /\ \E i \in Procs : race.proc[i].sent = "mined"
    /\ \E i \in Procs : race.proc[i].sent \in {"refused", "dropped"}

\* C25: the counter-based copy of extract_json_objects returns, for every
\* text, the list of objects that the stack-based copies return, texts
\* with an unmatched closing brace before a valid object included.
C25_CopiesAgree ==
    (ext.pc = "done" /\ ext.fn = "counter")
    => ext.objs = extract_json_objects(ext.text)

====
